---- MODULE Spec2Model ----
\* compare_series (src/compare_ids.py): the comparison of two pandas Series.
\* A Series is a sequence of cells; a cell holds a regular value (1, 2, ...)
\* or the missing marker NA.  Both Series of one call share a dtype:
\*   "object"  - a missing cell holds the singleton None;
\*   "float64" - a missing cell holds NaN, and every tolist() call builds a
\*               fresh Python float for it (nan != nan, so two such objects
\*               are equal only when they are the same object).
\* A Python object is a record [val, call, pos]: val is the cell's value,
\* (call, pos) the identity of a NaN float (the tolist() call that built it
\* and its position), <<0, 0>> for every object compared by value.
EXTENDS Integers, Sequences, FiniteSets, TLC

\* ---------------------------------------------------------------- bounds
NumVals == 2    \* regular values 1..NumVals
MaxCells == 3   \* cells of the two enumerated Series together
MaxSeed == 2    \* hash seeds (iteration orders of a set) tried
HashMod == 5    \* modulus of the modelled hash

NA == 0         \* the missing marker of a Series cell

Labels == {"A", "B"}
Dtypes == {"object", "float64"}

\* the example of the source's __main__ block: x=1, y=2, z=3, w=4
ExampleA == <<1, 2, 2, NA, 3>>
ExampleB == <<2, 3, 3, 4>>

\* further inputs: both Series hold the same values in another order, or
\* share one value and hold one of their own
Examples ==
    {<<ExampleA, ExampleB>>, <<<<1, 2>>, <<2, 1>>>>, <<<<1, 1, 2>>, <<2, 3>>>>,
     <<<<NA, 1, NA>>, <<2, NA, 1>>>>}

RECURSIVE SeqsUpTo(_)
SeqsUpTo(n) ==
    IF n = 0 THEN {<<>>}
    ELSE LET shorter == SeqsUpTo(n - 1)
         IN  shorter \cup {Append(s, v) : s \in shorter, v \in 0..NumVals}

InputPairs ==
    {p \in SeqsUpTo(MaxCells) \X SeqsUpTo(MaxCells) : Len(p[1]) + Len(p[2]) <= MaxCells}
        \cup Examples

VARIABLES a, b, a_is_series, b_is_series, name_a, name_b, dropna_for_sets,
          dtype, hash_seeds, outcome, reports

vars == <<a, b, a_is_series, b_is_series, name_a, name_b, dropna_for_sets,
          dtype, hash_seeds, outcome, reports>>

\* ------------------------------------------------------- pandas / Python
PyObj(v) == [val |-> v, call |-> 0, pos |-> 0]

\* Series.tolist(): call numbers the call site
tolist(s, dt, call) ==
    [i \in 1..Len(s) |->
        IF s[i] = NA /\ dt = "float64"
        THEN [val |-> NA, call |-> call, pos |-> i]
        ELSE PyObj(s[i])]

IsPresent(v) == v # NA
dropna(s) == SelectSeq(s, IsPresent)

\* the missing cells counted in the view that has dropped them
isna_sum_after_dropna(s) == Cardinality({i \in 1..Len(dropna(s)) : dropna(s)[i] = NA})
isna_sum(s) == Cardinality({i \in 1..Len(s) : s[i] = NA})

nunique(s) == Cardinality({s[i] : i \in 1..Len(s)})

\* value_counts() with its default dropna=True
value_counts_dropna(s) ==
    [v \in {s[i] : i \in 1..Len(s)} \ {NA} |-> Cardinality({i \in 1..Len(s) : s[i] = v})]

\* Series.value_counts(dropna=False): value -> occurrences, NA one category
value_counts(s) ==
    [v \in {s[i] : i \in 1..Len(s)} |-> Cardinality({i \in 1..Len(s) : s[i] = v})]

\* vc.get(v, default): the index lookup matches a missing key to the NA entry
vc_get(vc, v, default) == IF v.val \in DOMAIN vc THEN vc[v.val] ELSE default

\* a dict is the sequence of its items [k, v] in insertion order
DictHas(d, x) == \E j \in 1..Len(d) : d[j].k = x
DictGet(d, x, default) ==
    IF DictHas(d, x) THEN d[CHOOSE j \in 1..Len(d) : d[j].k = x].v ELSE default

\* a dict with string keys, as a function; a repeated key keeps the last value
DictSet(d, k, v) == [x \in (DOMAIN d) \cup {k} |-> IF x = k THEN v ELSE d[x]]
EmptyDict == [x \in {} |-> 0]

\* f"{prefix}{name}"
FKey(prefix, name) == <<prefix, name>>

\* hash order: list(values) iterates a set in the order of its hashes
HashKey(x, seed) ==
    <<((x.val + 3 * x.call + 5 * x.pos) * seed) % HashMod, x.val, x.call, x.pos>>

HashLess(x, y, seed) ==
    LET h == HashKey(x, seed)
        g == HashKey(y, seed)
    IN  \E n \in 1..4 : h[n] < g[n] /\ \A m \in 1..(n - 1) : h[m] = g[m]

list(values, seed) ==
    LET n == Cardinality(values)
        rank(x) == 1 + Cardinality({y \in values : HashLess(y, x, seed)})
    IN  [p \in 1..n |-> CHOOSE x \in values : rank(x) = p]

\* order_map.get(x, float("inf")): <<0, position>>, or <<1, 0>> for inf
OrderKey(order_map, x) ==
    IF DictHas(order_map, x) THEN <<0, DictGet(order_map, x, 0)>> ELSE <<1, 0>>

KeyLess(k1, k2) == k1[1] < k2[1] \/ (k1[1] = k2[1] /\ k1[2] < k2[2])

\* a sort that leaves the list as it is
sorted_noop(lst, order_map) == lst

\* sorted(lst, key=...): stable
sorted(lst, order_map) ==
    LET n == Len(lst)
        key(i) == OrderKey(order_map, lst[i])
        rank(i) == 1 + Cardinality({j \in 1..n :
                        KeyLess(key(j), key(i)) \/ (key(j) = key(i) /\ j < i)})
    IN  [p \in 1..n |-> lst[CHOOSE i \in 1..n : rank(i) = p]]

\* ------------------------------------------------------- compare_series
RECURSIVE first_idx_loop(_, _, _)
first_idx_loop(lst, i, first_idx) ==
    IF i > Len(lst) THEN first_idx
    ELSE first_idx_loop(lst, i + 1,
            IF ~DictHas(first_idx, lst[i])
            THEN Append(first_idx, [k |-> lst[i], v |-> i - 1])
            ELSE first_idx)

first_appearance_order(s, dt, call) == first_idx_loop(tolist(s, dt, call), 1, <<>>)

RECURSIVE combine_loop(_, _, _)
combine_loop(source, j, acc) ==
    IF j > Len(source) THEN acc
    ELSE combine_loop(source, j + 1,
            IF ~DictHas(acc.combined_order, source[j].k)
            THEN [combined_order |-> Append(acc.combined_order,
                                            [k |-> source[j].k, v |-> acc.next_pos]),
                  next_pos |-> acc.next_pos + 1]
            ELSE acc)

combined_order_of(order_a, order_b) ==
    combine_loop(order_b, 1,
        combine_loop(order_a, 1, [combined_order |-> <<>>, next_pos |-> 0])).combined_order

\* the set as a list, in the set's own iteration order
_ordered_list_unsorted(values, order_map, seed) == list(values, seed)
_ordered_list(values, order_map, seed) == sorted(list(values, seed), order_map)

\* set(lst), and Python's set operators &, -, |, ^
ToSet(lst) == {lst[i] : i \in 1..Len(lst)}
set_and(x, y) == x \cap y
set_sub(x, y) == x \ y
set_or(x, y) == x \cup y
set_xor_as_or(x, y) == x \cup y
set_xor(x, y) == (x \ y) \cup (y \ x)

working(s, dropna_flag) == IF dropna_flag THEN dropna(s) ELSE s

details_of(union_vals_sorted, vc_a, vc_b, na, nb) ==
    LET n  == Len(union_vals_sorted)
        c1 == [i \in 1..n |-> vc_get(vc_a, union_vals_sorted[i], 0)]
        c2 == [i \in 1..n |-> vc_get(vc_b, union_vals_sorted[i], 0)]
        d0 == DictSet(DictSet(EmptyDict, FKey("count_in_", na), c1),
                      FKey("count_in_", nb), c2)
        d1 == DictSet(d0, FKey("in_", na),
                      [i \in 1..n |-> d0[FKey("count_in_", na)][i] > 0])
        d2 == DictSet(d1, FKey("in_", nb),
                      [i \in 1..n |-> d1[FKey("count_in_", nb)][i] > 0])
        d3 == DictSet(d2, FKey("in_both", ""),
                      [i \in 1..n |-> d2[FKey("in_", na)][i] /\ d2[FKey("in_", nb)][i]])
        d4 == DictSet(d3, FKey("only_in_", na),
                      [i \in 1..n |-> d3[FKey("in_", na)][i] /\ ~d3[FKey("in_", nb)][i]])
        d5 == DictSet(d4, FKey("only_in_", nb),
                      [i \in 1..n |-> d4[FKey("in_", nb)][i] /\ ~d4[FKey("in_", na)][i]])
    IN  [index |-> union_vals_sorted, columns |-> d5]

counts_summary_of(sa, sb, na, nb, na_count_a, na_count_b, inter, only_a, only_b, uni, symdiff) ==
    LET c1  == DictSet(EmptyDict, FKey("n_", na), Len(sa))
        c2  == DictSet(c1, FKey("n_", nb), Len(sb))
        c3  == DictSet(c2, FKey("n_unique_", na), nunique(dropna(sa)))
        c4  == DictSet(c3, FKey("n_unique_", nb), nunique(dropna(sb)))
        c5  == DictSet(c4, FKey("n_overlap_values", ""), Cardinality(inter))
        c6  == DictSet(c5, FKey("n_only_in_", na), Cardinality(only_a))
        c7  == DictSet(c6, FKey("n_only_in_", nb), Cardinality(only_b))
        c8  == DictSet(c7, FKey("n_union_values", ""), Cardinality(uni))
        c9  == DictSet(c8, FKey("n_symmetric_difference", ""), Cardinality(symdiff))
        c10 == DictSet(c9, FKey("na_count_", na), na_count_a)
        c11 == DictSet(c10, FKey("na_count_", nb), na_count_b)
    IN  c11

compare_series(sa, sb, na, nb, dropna_flag, dt, seed) ==
    LET na_count_a == isna_sum(sa)
        na_count_b == isna_sum(sb)
        as_set  == working(sa, dropna_flag)
        bs_set  == working(sb, dropna_flag)
        order_a == first_appearance_order(as_set, dt, 1)
        order_b == first_appearance_order(bs_set, dt, 2)
        combined_order == combined_order_of(order_a, order_b)
        set_a   == ToSet(tolist(as_set, dt, 3))
        set_b   == ToSet(tolist(bs_set, dt, 4))
        inter   == set_and(set_a, set_b)
        only_a  == set_sub(set_a, set_b)
        only_b  == set_sub(set_b, set_a)
        uni     == set_or(set_a, set_b)
        symdiff == set_xor(set_a, set_b)
        vc_a    == value_counts(sa)
        vc_b    == value_counts(sb)
        union_vals_sorted == sorted(list(uni, seed), combined_order)
    IN  [intersection |-> _ordered_list(inter, combined_order, seed),
         only_in_a |-> _ordered_list(only_a, combined_order, seed),
         only_in_b |-> _ordered_list(only_b, combined_order, seed),
         union |-> _ordered_list(uni, combined_order, seed),
         symmetric_difference |-> _ordered_list(symdiff, combined_order, seed),
         counts |-> counts_summary_of(sa, sb, na, nb, na_count_a, na_count_b,
                                      inter, only_a, only_b, uni, symdiff),
         value_counts_a |-> vc_a,
         value_counts_b |-> vc_b,
         details |-> details_of(union_vals_sorted, vc_a, vc_b, na, nb)]

\* isinstance(a, pd.Series) and isinstance(b, pd.Series)
\* the check with "and" in place of "or"
inputs_are_series_and(x_is_series, y_is_series) == ~(~x_is_series /\ ~y_is_series)
inputs_are_series(x_is_series, y_is_series) == ~(~x_is_series \/ ~y_is_series)

\* ---------------------------------------------------------------- system
\* reports: the reports returned so far, by a call and by a second call with
\* the same arguments; hash_seeds: the hash seed each was computed under
Init ==
    /\ \E p \in InputPairs : a = p[1] /\ b = p[2]
    /\ a_is_series \in BOOLEAN
    /\ b_is_series \in BOOLEAN
    /\ ~a_is_series => a = <<>>
    /\ ~b_is_series => b = <<>>
    /\ name_a = "A"
    /\ name_b \in Labels
    /\ dropna_for_sets \in BOOLEAN
    /\ dtype \in Dtypes
    /\ hash_seeds = <<>>
    /\ outcome = "ready"
    /\ reports = <<>>

\* the body of a call that passes the type check and returns its report; the
\* hash seed (the iteration order of the sets) is not an argument of the call
Return ==
    /\ inputs_are_series(a_is_series, b_is_series)
    /\ \E seed \in 1..MaxSeed :
        /\ hash_seeds' = Append(hash_seeds, seed)
        /\ reports' = Append(reports,
               compare_series(a, b, name_a, name_b, dropna_for_sets, dtype, seed))
    /\ outcome' = "returned"
    /\ UNCHANGED <<a, b, a_is_series, b_is_series, name_a, name_b, dropna_for_sets, dtype>>

\* the first call
Call ==
    /\ outcome = "ready"
    /\ Return

\* a second call with the same arguments
CallAgain ==
    /\ outcome = "returned"
    /\ Len(reports) = 1
    /\ Return

\* a call that fails the type check
RaiseTypeError ==
    /\ ~inputs_are_series(a_is_series, b_is_series)
    /\ outcome = "ready"
    /\ outcome' = "TypeError"
    /\ UNCHANGED <<a, b, a_is_series, b_is_series, name_a, name_b, dropna_for_sets,
                   dtype, hash_seeds, reports>>

Next == Call \/ CallAgain \/ RaiseTypeError

Spec == Init /\ [][Next]_vars

\* ---------------------------------------------------------------- claims
Returned == outcome = "returned"
R == reports[Len(reports)]

\* what a reader of the report sees of a list: its values, NA for the marker
ValSeq(lst) == [i \in 1..Len(lst) |-> lst[i].val]
Vals(lst) == {lst[i].val : i \in 1..Len(lst)}
Cells(s) == {s[i] : i \in 1..Len(s)}
CountOf(s, v) == Cardinality({i \in 1..Len(s) : s[i] = v})
WorkCells(s) == IF dropna_for_sets THEN Cells(s) \ {NA} ELSE Cells(s)
Disjoint(x, y) == x \cap y = {}

\* C1: intersection, only_in_a and only_in_b together hold the values of
\* union and are pairwise disjoint; every value of intersection is in both
\* working sequences, every value of only_in_a in A's and not in B's.
C1_Partition ==
    Returned =>
        /\ Vals(R.intersection) \cup Vals(R.only_in_a) \cup Vals(R.only_in_b) = Vals(R.union)
        /\ Disjoint(Vals(R.intersection), Vals(R.only_in_a))
        /\ Disjoint(Vals(R.intersection), Vals(R.only_in_b))
        /\ Disjoint(Vals(R.only_in_a), Vals(R.only_in_b))
        /\ Vals(R.intersection) \subseteq WorkCells(a) \cap WorkCells(b)
        /\ Vals(R.only_in_a) \subseteq WorkCells(a) \ WorkCells(b)

\* C2: the values of symmetric_difference are those of only_in_a and
\* only_in_b together, and none of them is a value of intersection.
C2_SymmetricDifference ==
    Returned =>
        /\ Vals(R.symmetric_difference) = Vals(R.only_in_a) \cup Vals(R.only_in_b)
        /\ Disjoint(Vals(R.symmetric_difference), Vals(R.intersection))

C2_Witness ==
    /\ Returned
    /\ R.only_in_a # <<>>
    /\ R.only_in_b # <<>>
    /\ R.intersection # <<>>
    /\ Len(R.symmetric_difference) >= 2

\* the scan of A's working sequence, then B's
WorkSeq(s) == IF dropna_for_sets THEN SelectSeq(s, LAMBDA c : c # NA) ELSE s
Scan == WorkSeq(a) \o WorkSeq(b)
FirstAt(v) == CHOOSE i \in 1..Len(Scan) : Scan[i] = v /\ \A j \in 1..(i - 1) : Scan[j] # v
InFirstAppearanceOrder(lst) ==
    /\ Vals(lst) \subseteq Cells(Scan)
    /\ \A i, j \in 1..Len(lst) : i < j => FirstAt(lst[i].val) < FirstAt(lst[j].val)
IsSubsequenceOf(lst, whole) ==
    ValSeq(lst) = SelectSeq(ValSeq(whole), LAMBDA v : v \in Vals(lst))
FiveLists(r) ==
    {r.intersection, r.only_in_a, r.only_in_b, r.union, r.symmetric_difference}

\* C3: each of the five lists has no duplicate and is in first-appearance
\* order (A's working sequence scanned first, then B's); so every value of
\* A's working sequence precedes every value only in B, each list is a
\* subsequence of union, and A = [1,2], B = [2,1] gives union [1,2].
C3_FirstAppearanceOrder ==
    Returned =>
        /\ \A lst \in FiveLists(R) :
            /\ Cardinality(Vals(lst)) = Len(lst)
            /\ InFirstAppearanceOrder(lst)
            /\ IsSubsequenceOf(lst, R.union)
        /\ \A i, j \in 1..Len(R.union) :
            (R.union[i].val \in WorkCells(a) /\ R.union[j].val \notin WorkCells(a)) => i < j
        /\ (a = <<1, 2>> /\ b = <<2, 1>>) => ValSeq(R.union) = <<1, 2>>

\* C4: the reported missing count of A, counts na_count_<name_a>, is the
\* number of missing markers of the raw A, and likewise for B, for both
\* values of the flag.
C4_NaCounts ==
    Returned =>
        /\ R.counts[<<"na_count_", name_a>>] = CountOf(a, NA)
        /\ R.counts[<<"na_count_", name_b>>] = CountOf(b, NA)

\* C4 as amended: the same, for distinct labels name_a and name_b.
C4_NaCountsDistinctLabels == name_a # name_b => C4_NaCounts

C4_Witness ==
    /\ Returned
    /\ name_a # name_b
    /\ dropna_for_sets
    /\ CountOf(a, NA) = 2
    /\ CountOf(b, NA) = 1

\* C5: with the flag false and a missing marker in both A and B, the marker
\* is in intersection, once, once in union, and in neither only_in_a nor
\* only_in_b; with the flag true it is in none of the five lists.
C5_MissingInSets ==
    Returned =>
        /\ (~dropna_for_sets /\ NA \in Cells(a) /\ NA \in Cells(b)) =>
            /\ CountOf(ValSeq(R.intersection), NA) = 1
            /\ CountOf(ValSeq(R.union), NA) = 1
            /\ NA \notin Vals(R.only_in_a)
            /\ NA \notin Vals(R.only_in_b)
        /\ dropna_for_sets => \A lst \in FiveLists(R) : NA \notin Vals(lst)

\* C6: details has as many rows as union has elements, and its index is the
\* union list in the same order.
C6_DetailsRows ==
    Returned =>
        /\ Len(R.details.index) = Len(R.union)
        /\ R.details.index = R.union
        /\ \A c \in DOMAIN R.details.columns :
            Len(R.details.columns[c]) = Len(R.union)
        /\ (WorkCells(a) = {} /\ WorkCells(b) = {}) => Len(R.details.index) = 0

C6_Witness ==
    /\ Returned
    /\ Len(R.union) >= 3
    /\ ValSeq(R.details.index) # ValSeq(list(ToSet(R.union), hash_seeds[Len(hash_seeds)]))

ReportFields ==
    {"intersection", "only_in_a", "only_in_b", "union", "symmetric_difference",
     "counts", "value_counts_a", "value_counts_b", "details"}

\* C7: the call fails with TypeError exactly when an input is not a Series,
\* and then returns no report; every pair of Series gets a complete report,
\* and A = [], B = [] gets empty lists, zero counts and no details row.
C7_TypeError ==
    /\ outcome = "TypeError" => (~(a_is_series /\ b_is_series) /\ reports = <<>>)
    /\ Returned => (a_is_series /\ b_is_series /\ reports # <<>>)
    /\ (outcome = "ready" /\ ~(a_is_series /\ b_is_series)) =>
            (ENABLED RaiseTypeError /\ ~ENABLED Call)
    /\ (outcome = "ready" /\ a_is_series /\ b_is_series) =>
        /\ ~ENABLED RaiseTypeError
        /\ inputs_are_series(a_is_series, b_is_series)
        /\ \A seed \in 1..MaxSeed :
            DOMAIN compare_series(a, b, name_a, name_b, dropna_for_sets, dtype, seed)
                = ReportFields
    /\ Returned => DOMAIN R = ReportFields
    /\ (Returned /\ a = <<>> /\ b = <<>>) =>
        /\ \A lst \in FiveLists(R) : lst = <<>>
        /\ \A k \in DOMAIN R.counts : R.counts[k] = 0
        /\ R.details.index = <<>>

C7_Witness ==
    /\ outcome = "TypeError"
    /\ a_is_series
    /\ ~b_is_series

\* what two reports can be compared by: values, counts and table cells
Observable(r) ==
    [intersection |-> ValSeq(r.intersection),
     only_in_a |-> ValSeq(r.only_in_a),
     only_in_b |-> ValSeq(r.only_in_b),
     union |-> ValSeq(r.union),
     symmetric_difference |-> ValSeq(r.symmetric_difference),
     counts |-> r.counts,
     value_counts_a |-> r.value_counts_a,
     value_counts_b |-> r.value_counts_b,
     details |-> [index |-> ValSeq(r.details.index), columns |-> r.details.columns]]

\* C8: two calls with the same arguments return the same report, element
\* order included, whatever the iteration order of the sets.
C8_Deterministic ==
    \A i, j \in 1..Len(reports) : Observable(reports[i]) = Observable(reports[j])

C8_Witness ==
    /\ Len(reports) = 2
    /\ hash_seeds[1] # hash_seeds[2]
    /\ Len(reports[2].union) >= 3
    /\ ValSeq(list(ToSet(reports[1].union), hash_seeds[1]))
         # ValSeq(list(ToSet(reports[2].union), hash_seeds[2]))

RECURSIVE SumOver(_, _)
SumOver(f, keys) ==
    IF keys = {} THEN 0
    ELSE LET k == CHOOSE x \in keys : TRUE IN f[k] + SumOver(f, keys \ {k})

ValueCountsOf(vc, s) ==
    /\ DOMAIN vc = Cells(s)
    /\ \A v \in Cells(s) : vc[v] = CountOf(s, v)
    /\ SumOver(vc, DOMAIN vc) = Len(s)

\* C9: value_counts_a maps every distinct value of the raw A, the missing
\* markers as one category, to its occurrences, whatever the flag; the
\* counts sum to the length, the missing category's entry is the reported
\* missing count, and A = [x, y, y, MISSING, z] counts y twice.
C9_ValueCounts ==
    Returned =>
        /\ ValueCountsOf(R.value_counts_a, a)
        /\ ValueCountsOf(R.value_counts_b, b)
        /\ NA \in Cells(a) => R.value_counts_a[NA] = R.counts[<<"na_count_", name_a>>]
        /\ NA \in Cells(b) => R.value_counts_b[NA] = R.counts[<<"na_count_", name_b>>]
        /\ a = ExampleA => R.value_counts_a[2] = 2

\* C9 as amended: the same, the missing category's entry being the reported
\* missing count when the labels name_a and name_b are distinct.
C9_ValueCountsDistinctLabels ==
    Returned =>
        /\ ValueCountsOf(R.value_counts_a, a)
        /\ ValueCountsOf(R.value_counts_b, b)
        /\ name_a # name_b =>
            /\ NA \in Cells(a) => R.value_counts_a[NA] = R.counts[<<"na_count_", name_a>>]
            /\ NA \in Cells(b) => R.value_counts_b[NA] = R.counts[<<"na_count_", name_b>>]
        /\ a = ExampleA => R.value_counts_a[2] = 2

C9_Witness ==
    /\ Returned
    /\ a = ExampleA
    /\ name_a # name_b
    /\ ~dropna_for_sets
    /\ R.value_counts_a[NA] = 1

Col(prefix, name) == R.details.columns[<<prefix, name>>]

\* C10: for distinct labels, every details row v has count-in-A and
\* count-in-B equal to the occurrences of v in the raw A and B, in_A and
\* in_B true exactly when v is in A's and B's working set, in_both,
\* only_in_A and only_in_B true exactly when v is in intersection,
\* only_in_a and only_in_b, and exactly one of these three true.
C10_DetailsRow ==
    (Returned /\ name_a # name_b) =>
        \A i \in 1..Len(R.details.index) :
            LET v == R.details.index[i].val
                flags == <<Col("in_both", "")[i], Col("only_in_", name_a)[i],
                           Col("only_in_", name_b)[i]>>
            IN  /\ Col("count_in_", name_a)[i] = CountOf(a, v)
                /\ Col("count_in_", name_b)[i] = CountOf(b, v)
                /\ Col("in_", name_a)[i] <=> v \in WorkCells(a)
                /\ Col("in_", name_b)[i] <=> v \in WorkCells(b)
                /\ Col("in_both", "")[i] <=> v \in Vals(R.intersection)
                /\ Col("only_in_", name_a)[i] <=> v \in Vals(R.only_in_a)
                /\ Col("only_in_", name_b)[i] <=> v \in Vals(R.only_in_b)
                /\ Cardinality({n \in 1..3 : flags[n]}) = 1

Count(prefix, name) == R.counts[<<prefix, name>>]

\* C11: for distinct labels, the summary counts are the lengths of the
\* returned lists, so n_union = n_overlap + n_only_in_A + n_only_in_B and
\* n_symmetric_difference = n_only_in_A + n_only_in_B; the totals are the
\* raw lengths; the distinct non-missing count of A leaves the marker out,
\* so it is n_overlap + n_only_in_A with the flag true, and one less with
\* the flag false and a missing marker in A.
C11_SummaryCounts ==
    (Returned /\ name_a # name_b) =>
        /\ Count("n_overlap_values", "") = Len(R.intersection)
        /\ Count("n_only_in_", name_a) = Len(R.only_in_a)
        /\ Count("n_only_in_", name_b) = Len(R.only_in_b)
        /\ Count("n_union_values", "") = Len(R.union)
        /\ Count("n_symmetric_difference", "") = Len(R.symmetric_difference)
        /\ Count("n_union_values", "") =
             Count("n_overlap_values", "") + Count("n_only_in_", name_a)
               + Count("n_only_in_", name_b)
        /\ Count("n_symmetric_difference", "") =
             Count("n_only_in_", name_a) + Count("n_only_in_", name_b)
        /\ Count("n_", name_a) = Len(a)
        /\ Count("n_", name_b) = Len(b)
        /\ Count("n_unique_", name_a) = Cardinality(Cells(a) \ {NA})
        /\ dropna_for_sets =>
             Count("n_unique_", name_a) =
               Count("n_overlap_values", "") + Count("n_only_in_", name_a)
        /\ (~dropna_for_sets /\ NA \in Cells(a)) =>
             Count("n_unique_", name_a) =
               Count("n_overlap_values", "") + Count("n_only_in_", name_a) - 1

====
